---- MODULE Spec2Model ----
(***************************************************************************)
(* Model of src/lib/decorators.ts of lit-element: the decorators           *)
(* customElement, property, query / queryAll and eventOptions, together    *)
(* with the collaborators they call (the custom-element registry, the      *)
(* createProperty registration of the owning class, the render root of an  *)
(* instance and the decoration protocol that invokes finishers and         *)
(* initializers).                                                          *)
(***************************************************************************)
EXTENDS Integers, Sequences, FiniteSets, TLC

\* ------------------------------------------------------------------ bounds
\* number of decorator applications / protocol steps in one run
MaxOps == 3

\* ------------------------------------------------------------ value spaces
Tags == {"x-widget", "y-item"}
Classes == {"ClassA", "ClassB"}

\* a field that is not an own property of a record
Absent == "<absent>"
\* the JavaScript value undefined
Undefined == "<undefined>"
\* no class / no error / no value
NoClass == "<noclass>"
NoError == "<none>"
\* the marker of the finisher closure carried by a returned descriptor
FinisherFn == "<finisher>"

\* the fields a descriptor record handed to a decorator may carry
DescFields == {"kind", "elements", "key", "placement", "finisher"}

\* class descriptors handed to customElement(tagName): kind and elements,
\* and possibly further fields
ClassDescriptors ==
  { d \in [DescFields -> {Absent, "class", "field", "els", "k", "own"}] :
      /\ d["kind"] \in {Absent, "class", "field"}
      /\ d["elements"] \in {"els"}
      /\ d["key"] \in {Absent, "k"}
      /\ d["placement"] \in {Absent, "own"}
      /\ d["finisher"] = Absent }

\* reading a field of a record: a missing field reads as undefined
GetField(d, f) == IF d[f] = Absent THEN Undefined ELSE d[f]

\* ---- property
\* the options argument of property(options): none, or one of two objects
PropOptions == {Undefined, "optsA"}
\* names of decorated members
FieldKeys == {"foo", "bar"}
\* number of Symbol() keys a run can create: one per operation at most
MaxSyms == MaxOps

\* property keys: a string name, or the n-th symbol created by Symbol()
NamedKey(k) == [name |-> k, sym |-> 0]
SymKey(n) == [name |-> "", sym |-> n]
InstanceKeys == {NamedKey(k) : k \in FieldKeys} \cup {SymKey(n) : n \in 1..MaxSyms}

\* the initializer of a field element: none, a value that is not a function,
\* or one of two functions of the instance
Initializers == {Absent, "notAFunction", "initOne", "initFromBar"}
IsFunction(init) == init \in {"initOne", "initFromBar"}
\* element.initializer.call(instance)
CallInitializer(init, inst) ==
  IF init = "initOne" THEN "1"
  ELSE IF inst[NamedKey("bar")] = Absent THEN Undefined
  ELSE inst[NamedKey("bar")]

\* the class elements handed to property(options) in the descriptor shape
FieldElements ==
  { [kind |-> "field", key |-> "foo", initializer |-> "initOne"],
    [kind |-> "field", key |-> "foo", initializer |-> "initFromBar"],
    [kind |-> "field", key |-> "foo", initializer |-> "notAFunction"],
    [kind |-> "field", key |-> "bar", initializer |-> Absent],
    [kind |-> "field", key |-> "bar", initializer |-> "initOne"],
    [kind |-> "method", key |-> "bar", initializer |-> "initOne"] }

\* ---- query / queryAll
\* largest number of nodes in a render root
MaxNodes == 2
NodeTags == {"div", "span"}
\* selectors: a type selector per tag
Selectors == NodeTags
\* the value null, as a node with id 0
NullNode == [id |-> 0, tag |-> "<null>"]
\* the content of a render root: its nodes in document order, each
\* identified by its position
RootContents ==
  UNION { { [i \in 1..n |-> [id |-> i, tag |-> t[i]]] : t \in [1..n -> NodeTags] } :
            n \in 0..MaxNodes }
\* names of the members decorated by query / queryAll
MemberNames == {"el", "items"}
QueryFns == {"querySelector", "querySelectorAll"}
\* the decorated members: el is decorated with query, items with queryAll
QueryMembers ==
  { [fn |-> "querySelector", name |-> "el"],
    [fn |-> "querySelectorAll", name |-> "items"] }

\* ---- eventOptions
MethodKeys == {"onClick", "onKey"}
OptKeys == {"capture", "passive", "a"}
\* number of method objects
NumObjs == 3
NoOptions == [k \in OptKeys |-> Absent]
\* the options records passed to eventOptions(options)
EventOptionsSet ==
  { NoOptions,
    [NoOptions EXCEPT !["capture"] = "true"],
    [NoOptions EXCEPT !["capture"] = "false", !["passive"] = "true"],
    [NoOptions EXCEPT !["a"] = "2"] }
\* the method element descriptors handed to eventOptions(options)
MethodDescriptors ==
  { d \in [DescFields -> {Absent, "method", "prototype"} \cup MethodKeys] :
      /\ d["kind"] = "method"
      /\ d["key"] \in MethodKeys
      /\ d["placement"] \in {Absent, "prototype"}
      /\ d["elements"] = Absent
      /\ d["finisher"] = Absent }

VARIABLES
  step,        \* number of operations performed so far
  registry,    \* window.customElements: tag name -> class defined for it
  defineLog,   \* the calls of customElements.define, in order
  cePending,   \* descriptors returned by customElement, finisher not yet run
  ceLast,      \* what the last customElement operation did
  createLog,   \* the calls of createProperty, in order
  symCount,    \* number of symbols created by Symbol() so far
  decorations, \* the applications of property(options) made so far
  instance,    \* own properties of an instance of a decorated class
  propLast,    \* what the last property operation did
  renderRoot,  \* instance.renderRoot: whether it exists, and its nodes
  accessors,   \* property descriptors defined on the prototype, per member
  qPending,    \* per member, the descriptor returned by query / queryAll
               \* and not yet installed
  qLast,       \* what the last query operation did
  slots,       \* class -> method key -> the method object at prototype[key]
  objs,        \* own properties of each method object
  evPending,   \* descriptors returned by eventOptions, finisher not yet run
  evLast       \* what the last eventOptions operation did

ceVars == <<registry, defineLog, cePending, ceLast>>
propVars == <<createLog, symCount, decorations, instance, propLast>>
qVars == <<renderRoot, accessors, qPending, qLast>>
evVars == <<slots, objs, evPending, evLast>>
vars == <<step, ceVars, propVars, qVars, evVars>>

\* ------------------------------------------------------ customElements
\* window.customElements.define(tagName, clazz): fails with RegistryConflict
\* when the tag name is taken, and then leaves the registry as it is
define(reg, tagName, clazz) ==
  IF reg[tagName] # NoClass
    THEN [reg |-> reg, err |-> "RegistryConflict"]
    ELSE [reg |-> [reg EXCEPT ![tagName] = clazz], err |-> NoError]

NoDescriptor == [f \in DescFields |-> Absent]

CeNone ==
  [op |-> "none", seq |-> 0, tag |-> "", clazz |-> NoClass,
   input |-> NoDescriptor, inputAfter |-> NoDescriptor,
   retClass |-> NoClass, retDesc |-> NoDescriptor,
   thrown |-> NoError, asserted |-> TRUE]

\* variant: the returned record spreads the whole input, {...d, finisher}
customElementDescriptor_Spread(d) ==
  [f \in DescFields |-> IF f = "finisher" THEN FinisherFn ELSE d[f]]

\* the record customElement(tagName) returns for a descriptor:
\* {kind, elements, finisher}
customElementDescriptor(d) ==
  [f \in DescFields |->
     CASE f = "kind" -> GetField(d, "kind")
       [] f = "elements" -> GetField(d, "elements")
       [] f = "finisher" -> FinisherFn
       [] OTHER -> Absent]

\* variant: the legacy branch catches the error of define and returns clazz
CustomElementLegacy_Swallow(tagName, clazz) ==
  LET r == define(registry, tagName, clazz) IN
  /\ step < MaxOps
  /\ step' = step + 1
  /\ registry' = r.reg
  /\ defineLog' = Append(defineLog, [tag |-> tagName, clazz |-> clazz])
  /\ ceLast' = [CeNone EXCEPT !.op = "legacy", !.seq = step + 1,
                  !.tag = tagName, !.clazz = clazz, !.retClass = clazz]
  /\ UNCHANGED <<cePending, propVars, qVars, evVars>>

\* variant: the legacy branch returns a wrapper class instead of clazz
CustomElementLegacy_Wrap(tagName, clazz) ==
  LET r == define(registry, tagName, clazz) IN
  /\ step < MaxOps
  /\ step' = step + 1
  /\ registry' = r.reg
  /\ defineLog' = Append(defineLog, [tag |-> tagName, clazz |-> clazz])
  /\ ceLast' = [CeNone EXCEPT !.op = "legacy", !.seq = step + 1,
                  !.tag = tagName, !.clazz = clazz,
                  !.retClass = IF r.err = NoError THEN "<wrapper>" ELSE NoClass,
                  !.thrown = r.err]
  /\ UNCHANGED <<cePending, propVars, qVars, evVars>>

\* customElement(tagName)(clazz), typeof clazz === 'function'
CustomElementLegacy(tagName, clazz) ==
  LET r == define(registry, tagName, clazz) IN
  /\ step < MaxOps
  /\ step' = step + 1
  /\ registry' = r.reg
  /\ defineLog' = Append(defineLog, [tag |-> tagName, clazz |-> clazz])
  /\ ceLast' = [CeNone EXCEPT !.op = "legacy", !.seq = step + 1,
                  !.tag = tagName, !.clazz = clazz,
                  !.retClass = IF r.err = NoError THEN clazz ELSE NoClass,
                  !.thrown = r.err]
  /\ UNCHANGED <<cePending, propVars, qVars, evVars>>

\* customElement(tagName)(descriptor)
CustomElementDescriptor(tagName, d) ==
  /\ step < MaxOps
  /\ step' = step + 1
  /\ cePending' = cePending \cup
        {[id |-> step + 1, tag |-> tagName, desc |-> customElementDescriptor(d)]}
  /\ ceLast' = [CeNone EXCEPT !.op = "descriptor", !.seq = step + 1,
                  !.tag = tagName, !.input = d, !.inputAfter = d,
                  !.retDesc = customElementDescriptor(d),
                  !.asserted = (GetField(d, "kind") = "class")]
  /\ UNCHANGED <<registry, defineLog, propVars, qVars, evVars>>

\* variant: the finisher forgets to define the element
CustomElementFinisher_NoDefine(p, clazz) ==
  /\ step < MaxOps
  /\ p \in cePending
  /\ step' = step + 1
  /\ cePending' = cePending \ {p}
  /\ ceLast' = [CeNone EXCEPT !.op = "finisher", !.seq = step + 1,
                  !.tag = p.tag, !.clazz = clazz]
  /\ UNCHANGED <<registry, defineLog, propVars, qVars, evVars>>

\* the decoration protocol runs the finisher of a returned descriptor, once,
\* with the finished class
CustomElementFinisher(p, clazz) ==
  LET r == define(registry, p.tag, clazz) IN
  /\ step < MaxOps
  /\ p \in cePending
  /\ step' = step + 1
  /\ registry' = r.reg
  /\ defineLog' = Append(defineLog, [tag |-> p.tag, clazz |-> clazz])
  /\ cePending' = cePending \ {p}
  /\ ceLast' = [CeNone EXCEPT !.op = "finisher", !.seq = step + 1,
                  !.tag = p.tag, !.clazz = clazz, !.thrown = r.err]
  /\ UNCHANGED <<propVars, qVars, evVars>>

CeLegacy == \E t \in Tags, c \in Classes : CustomElementLegacy(t, c)
CeDescriptor == \E t \in Tags, d \in ClassDescriptors : CustomElementDescriptor(t, d)
CeFinisher == \E p \in cePending, c \in Classes : CustomElementFinisher(p, c)

\* ------------------------------------------------------------ property
PropNone ==
  [op |-> "none", seq |-> 0, id |-> 0, clazz |-> NoClass, asserted |-> TRUE,
   retKind |-> Absent, retKey |-> SymKey(0), retPlacement |-> Absent,
   value |-> Absent]

\* createProperty(key, options) called on clazz, by decoration number id
CreateCall(id, clazz, key, options) ==
  [by |-> id, clazz |-> clazz, key |-> key, options |-> options]

\* property(options)(proto, name), name !== undefined; clazz is
\* proto.constructor
PropertyLegacy(options, clazz, name) ==
  /\ step < MaxOps
  /\ step' = step + 1
  /\ createLog' = Append(createLog,
                     CreateCall(step + 1, clazz, NamedKey(name), options))
  /\ decorations' = decorations \cup
        {[id |-> step + 1, shape |-> "legacy", key |-> name, sym |-> 0,
          initializer |-> Absent, options |-> options, finished |-> TRUE]}
  /\ propLast' = [PropNone EXCEPT !.op = "legacy", !.seq = step + 1,
                    !.id = step + 1, !.clazz = clazz]
  /\ UNCHANGED <<symCount, instance, ceVars, qVars, evVars>>

\* property(options)(element), name === undefined
PropertyDescriptor(options, element) ==
  /\ step < MaxOps
  /\ step' = step + 1
  /\ symCount' = symCount + 1
  /\ decorations' = decorations \cup
        {[id |-> step + 1, shape |-> "descriptor", key |-> element.key,
          sym |-> symCount + 1, initializer |-> element.initializer,
          options |-> options, finished |-> FALSE]}
  /\ propLast' = [PropNone EXCEPT !.op = "descriptor", !.seq = step + 1,
                    !.id = step + 1, !.asserted = (element.kind = "field"),
                    !.retKind = "field", !.retKey = SymKey(symCount + 1),
                    !.retPlacement = "own"]
  /\ UNCHANGED <<createLog, instance, ceVars, qVars, evVars>>

\* variant: the finisher registers the key of the replacement field
PropertyFinisher_SymbolKey(p, clazz) ==
  /\ step < MaxOps
  /\ p \in decorations
  /\ ~p.finished
  /\ step' = step + 1
  /\ createLog' = Append(createLog,
                     CreateCall(p.id, clazz, SymKey(p.sym), p.options))
  /\ decorations' = (decorations \ {p}) \cup {[p EXCEPT !.finished = TRUE]}
  /\ propLast' = [PropNone EXCEPT !.op = "finisher", !.seq = step + 1,
                    !.id = p.id, !.clazz = clazz]
  /\ UNCHANGED <<symCount, instance, ceVars, qVars, evVars>>

\* the finisher of the descriptor returned by property(options), run once by
\* the decoration protocol with the finished class
PropertyFinisher(p, clazz) ==
  /\ step < MaxOps
  /\ p \in decorations
  /\ ~p.finished
  /\ step' = step + 1
  /\ createLog' = Append(createLog,
                     CreateCall(p.id, clazz, NamedKey(p.key), p.options))
  /\ decorations' = (decorations \ {p}) \cup {[p EXCEPT !.finished = TRUE]}
  /\ propLast' = [PropNone EXCEPT !.op = "finisher", !.seq = step + 1,
                    !.id = p.id, !.clazz = clazz]
  /\ UNCHANGED <<symCount, instance, ceVars, qVars, evVars>>

\* variant: the initializer stores under the key of the replacement field
PropertyInitializer_FreshKey(p) ==
  /\ step < MaxOps
  /\ p \in decorations
  /\ p.shape = "descriptor"
  /\ p.finished
  /\ step' = step + 1
  /\ instance' = IF IsFunction(p.initializer)
                   THEN [instance EXCEPT ![SymKey(p.sym)] =
                            CallInitializer(p.initializer, instance)]
                   ELSE instance
  /\ propLast' = [PropNone EXCEPT !.op = "initializer", !.seq = step + 1,
                    !.id = p.id,
                    !.value = IF IsFunction(p.initializer)
                                THEN CallInitializer(p.initializer, instance)
                                ELSE Absent]
  /\ UNCHANGED <<createLog, symCount, decorations, ceVars, qVars, evVars>>

\* the initializer of the replacement field, run with the instance as
\* receiver when an instance of the finished class is constructed
PropertyInitializer(p) ==
  /\ step < MaxOps
  /\ p \in decorations
  /\ p.shape = "descriptor"
  /\ p.finished
  /\ step' = step + 1
  /\ instance' = IF IsFunction(p.initializer)
                   THEN [instance EXCEPT ![NamedKey(p.key)] =
                            CallInitializer(p.initializer, instance)]
                   ELSE instance
  /\ propLast' = [PropNone EXCEPT !.op = "initializer", !.seq = step + 1,
                    !.id = p.id,
                    !.value = IF IsFunction(p.initializer)
                                THEN CallInitializer(p.initializer, instance)
                                ELSE Absent]
  /\ UNCHANGED <<createLog, symCount, decorations, ceVars, qVars, evVars>>

PropLegacy ==
  \E o \in PropOptions, c \in Classes, n \in FieldKeys : PropertyLegacy(o, c, n)
PropDescriptor ==
  \E o \in PropOptions, e \in FieldElements : PropertyDescriptor(o, e)
PropFinisher == \E p \in decorations, c \in Classes : PropertyFinisher(p, c)
PropInitializer == \E p \in decorations : PropertyInitializer(p)

\* the instance starts with the own property bar = 2 and no other
InitialInstance ==
  [k \in InstanceKeys |-> IF k = NamedKey("bar") THEN "2" ELSE Absent]

\* ---------------------------------------------------- query / queryAll
RECURSIVE querySelector(_, _)
\* target.querySelector(selector): the first match in document order, or null
querySelector(nodes, selector) ==
  IF nodes = <<>> THEN NullNode
  ELSE IF Head(nodes).tag = selector THEN Head(nodes)
  ELSE querySelector(Tail(nodes), selector)

RECURSIVE querySelectorAll(_, _)
\* target.querySelectorAll(selector): all matches, in document order
querySelectorAll(nodes, selector) ==
  IF nodes = <<>> THEN <<>>
  ELSE IF Head(nodes).tag = selector
         THEN <<Head(nodes)>> \o querySelectorAll(Tail(nodes), selector)
         ELSE querySelectorAll(Tail(nodes), selector)

\* no property descriptor / the descriptor built by _query
NoAccessor ==
  [defined |-> FALSE, fn |-> "", selector |-> "", get |-> FALSE, set |-> FALSE,
   value |-> FALSE, enumerable |-> FALSE, configurable |-> FALSE]
queryDescriptor(fn, selector) ==
  [defined |-> TRUE, fn |-> fn, selector |-> selector, get |-> TRUE,
   set |-> FALSE, value |-> FALSE, enumerable |-> TRUE, configurable |-> TRUE]

\* the outcome of a read: a thrown error, or a returned value (a node or
\* null for querySelector, a list for querySelectorAll)
Thrown(e) == [thrown |-> e, returned |-> FALSE, single |-> NullNode, list |-> <<>>]
Returned(single, list) ==
  [thrown |-> NoError, returned |-> TRUE, single |-> single, list |-> list]

\* tick flips at every query operation; changed tells that a read returned
\* something else than the read of the same accessor right before it
QNone ==
  [op |-> "none", tick |-> 0, name |-> "", acc |-> NoAccessor,
   out |-> Thrown(NoError), changed |-> FALSE, retKind |-> Absent, retPlacement |-> Absent,
   retKey |-> Absent, retDescriptor |-> NoAccessor]

\* variant: the getter keeps the result of the previous read of the accessor
get_Cached(acc, root) ==
  IF qLast.op = "read" /\ qLast.acc = acc /\ qLast.out.returned THEN qLast.out
  ELSE IF ~root.exists THEN Thrown("NullRenderRoot")
  ELSE IF acc.fn = "querySelector"
    THEN Returned(querySelector(root.nodes, acc.selector), <<>>)
    ELSE Returned(NullNode, querySelectorAll(root.nodes, acc.selector))

\* variant: the getter answers null when there is no render root
get_NullSafe(acc, root) ==
  IF ~root.exists THEN Returned(NullNode, <<>>)
  ELSE IF acc.fn = "querySelector"
    THEN Returned(querySelector(root.nodes, acc.selector), <<>>)
    ELSE Returned(NullNode, querySelectorAll(root.nodes, acc.selector))

\* get() { return queryFn(this.renderRoot!, selector); }
\* with no render root the call on the missing target throws
get(acc, root) ==
  IF ~root.exists THEN Thrown("NullRenderRoot")
  ELSE IF acc.fn = "querySelector"
    THEN Returned(querySelector(root.nodes, acc.selector), <<>>)
    ELSE Returned(NullNode, querySelectorAll(root.nodes, acc.selector))

\* query(selector)(proto, name) / queryAll(selector)(proto, name):
\* Object.defineProperty(proto, name, descriptor)
QueryLegacy(fn, selector, name) ==
  /\ accessors' = [accessors EXCEPT ![name] = queryDescriptor(fn, selector)]
  /\ qLast' = [QNone EXCEPT !.op = "legacy", !.tick = 1 - qLast.tick,
                 !.name = name]
  /\ UNCHANGED <<step, renderRoot, qPending, ceVars, propVars, evVars>>

\* query(selector)(element) / queryAll(selector)(element)
QueryDescriptor(fn, selector, key) ==
  /\ qPending' = [qPending EXCEPT ![key] = queryDescriptor(fn, selector)]
  /\ qLast' = [QNone EXCEPT !.op = "descriptor", !.tick = 1 - qLast.tick,
                 !.name = key, !.retKind = "method",
                 !.retPlacement = "prototype", !.retKey = key,
                 !.retDescriptor = queryDescriptor(fn, selector)]
  /\ UNCHANGED <<step, renderRoot, accessors, ceVars, propVars, evVars>>

\* the decoration protocol installs a returned method element on the
\* prototype
QueryInstall(key) ==
  /\ qPending[key].defined
  /\ accessors' = [accessors EXCEPT ![key] = qPending[key]]
  /\ qPending' = [qPending EXCEPT ![key] = NoAccessor]
  /\ qLast' = [QNone EXCEPT !.op = "install", !.tick = 1 - qLast.tick,
                 !.name = key]
  /\ UNCHANGED <<step, renderRoot, ceVars, propVars, evVars>>

\* the element creates its render root, or renders new content into it
Render(nodes) ==
  /\ renderRoot' = [exists |-> TRUE, nodes |-> nodes]
  /\ UNCHANGED <<step, accessors, qPending, qLast, ceVars, propVars, evVars>>

\* reading the decorated member of the instance runs the getter
QueryRead(name) ==
  LET out == get(accessors[name], renderRoot) IN
  /\ accessors[name].defined
  /\ qLast' = [QNone EXCEPT !.op = "read", !.tick = 1 - qLast.tick,
                 !.name = name, !.acc = accessors[name], !.out = out,
                 !.changed = /\ qLast.op = "read"
                             /\ qLast.acc = accessors[name]
                             /\ qLast.out.returned
                             /\ qLast.out # out]
  /\ UNCHANGED <<step, renderRoot, accessors, qPending, ceVars, propVars, evVars>>

QLegacy ==
  \E m \in QueryMembers, s \in Selectors : QueryLegacy(m.fn, s, m.name)
QDescriptor ==
  \E m \in QueryMembers, s \in Selectors : QueryDescriptor(m.fn, s, m.name)
QInstall == \E n \in MemberNames : QueryInstall(n)
QRender == \E r \in RootContents : Render(r)
QRead == \E n \in MemberNames : QueryRead(n)

\* -------------------------------------------------------- eventOptions
\* variant: the target's properties are replaced by the options
ObjectAssign_Replace(target, options) == options

\* Object.assign(target, options) on the own properties of target
ObjectAssign(target, options) ==
  [k \in OptKeys |-> IF options[k] # Absent THEN options[k] ELSE target[k]]

EvNone ==
  [op |-> "none", seq |-> 0, target |-> 0, options |-> NoOptions,
   input |-> NoDescriptor, inputAfter |-> NoDescriptor,
   retDesc |-> NoDescriptor, thrown |-> NoError]

\* variant: the returned record keeps only kind and adds the finisher
eventOptionsDescriptor_KindOnly(d) ==
  [f \in DescFields |->
     IF f = "finisher" THEN FinisherFn
     ELSE IF f = "kind" THEN d[f] ELSE Absent]

\* {...protoOrDescriptor, finisher}
eventOptionsDescriptor(d) ==
  [f \in DescFields |-> IF f = "finisher" THEN FinisherFn ELSE d[f]]

\* Object.assign(proto[key], options); a missing method makes it throw
MergeOnto(clazz, key, options) ==
  LET target == slots[clazz][key] IN
  /\ objs' = IF target = 0 THEN objs
             ELSE [objs EXCEPT ![target] = ObjectAssign(@, options)]
  /\ UNCHANGED slots

\* eventOptions(options)(proto, name), name !== undefined
EventOptionsLegacy(options, clazz, name) ==
  /\ step < MaxOps
  /\ step' = step + 1
  /\ MergeOnto(clazz, name, options)
  /\ evLast' = [EvNone EXCEPT !.op = "legacy", !.seq = step + 1,
                  !.target = slots[clazz][name], !.options = options,
                  !.thrown = IF slots[clazz][name] = 0
                               THEN "TypeError" ELSE NoError]
  /\ UNCHANGED <<evPending, ceVars, propVars, qVars>>

\* eventOptions(options)(descriptor), name === undefined
EventOptionsDescriptor(options, d) ==
  /\ step < MaxOps
  /\ step' = step + 1
  /\ evPending' = evPending \cup
        {[id |-> step + 1, key |-> d["key"], options |-> options]}
  /\ evLast' = [EvNone EXCEPT !.op = "descriptor", !.seq = step + 1,
                  !.options = options, !.input = d, !.inputAfter = d,
                  !.retDesc = eventOptionsDescriptor(d)]
  /\ UNCHANGED <<slots, objs, ceVars, propVars, qVars>>

\* the finisher of the descriptor returned by eventOptions, run once by the
\* decoration protocol with the finished class
EventOptionsFinisher(p, clazz) ==
  /\ step < MaxOps
  /\ p \in evPending
  /\ step' = step + 1
  /\ MergeOnto(clazz, p.key, p.options)
  /\ evPending' = evPending \ {p}
  /\ evLast' = [EvNone EXCEPT !.op = "finisher", !.seq = step + 1,
                  !.target = slots[clazz][p.key], !.options = p.options,
                  !.thrown = IF slots[clazz][p.key] = 0
                               THEN "TypeError" ELSE NoError]
  /\ UNCHANGED <<ceVars, propVars, qVars>>

EvLegacy ==
  \E o \in EventOptionsSet, c \in Classes, n \in MethodKeys :
     EventOptionsLegacy(o, c, n)
EvDescriptor ==
  \E o \in EventOptionsSet, d \in MethodDescriptors : EventOptionsDescriptor(o, d)
EvFinisher == \E p \in evPending, c \in Classes : EventOptionsFinisher(p, c)

\* the methods of the decorated classes: ClassA has onClick and onKey,
\* ClassB has its own onClick and no onKey
InitialSlots ==
  [c \in Classes |->
     [k \in MethodKeys |->
        IF c = "ClassA" THEN (IF k = "onClick" THEN 1 ELSE 2)
        ELSE (IF k = "onClick" THEN 3 ELSE 0)]]
\* method 1 starts with the own property a = 1, the others with none
InitialObjs ==
  [o \in 1..NumObjs |->
     IF o = 1 THEN [NoOptions EXCEPT !["a"] = "1"] ELSE NoOptions]

Init ==
  /\ step = 0
  /\ renderRoot = [exists |-> FALSE, nodes |-> <<>>]
  /\ accessors = [n \in MemberNames |-> NoAccessor]
  /\ qPending = [n \in MemberNames |-> NoAccessor]
  /\ qLast = QNone
  /\ slots = InitialSlots
  /\ objs = InitialObjs
  /\ evPending = {}
  /\ evLast = EvNone
  /\ registry = [t \in Tags |-> NoClass]
  /\ defineLog = <<>>
  /\ cePending = {}
  /\ ceLast = CeNone
  /\ createLog = <<>>
  /\ symCount = 0
  /\ decorations = {}
  /\ instance = InitialInstance
  /\ propLast = PropNone

NextCE == CeLegacy \/ CeDescriptor \/ CeFinisher

SpecCE == Init /\ [][NextCE]_vars

NextProp == PropLegacy \/ PropDescriptor \/ PropFinisher \/ PropInitializer

SpecProp == Init /\ [][NextProp]_vars

NextQuery == QLegacy \/ QDescriptor \/ QInstall \/ QRender \/ QRead

SpecQuery == Init /\ [][NextQuery]_vars

NextEv == EvLegacy \/ EvDescriptor \/ EvFinisher

SpecEv == Init /\ [][NextEv]_vars

\* ------------------------------------------------- customElement: claims
\* the step just taken is a customElement operation of kind op
CeStep(op) == ceLast'.seq # ceLast.seq /\ ceLast'.op = op

\* C1 as stated: every direct application, whatever the tag name, returns
\* the identical class and makes one define call with that tag and class.
C1_Original ==
  ceLast.op = "legacy" =>
     /\ ceLast.retClass = ceLast.clazz
     /\ defineLog # <<>>
     /\ defineLog[Len(defineLog)] = [tag |-> ceLast.tag, clazz |-> ceLast.clazz]

\* C1 (amended): every direct application makes exactly one define call,
\* with its tag name and its class, during the application; it returns the
\* identical class whenever that define call does not throw, which is the
\* case exactly when the tag name was not registered before.
C1_DirectApply ==
  [][CeStep("legacy") =>
       /\ defineLog' = Append(defineLog,
                          [tag |-> ceLast'.tag, clazz |-> ceLast'.clazz])
       /\ (ceLast'.thrown = NoError <=> registry[ceLast'.tag] = NoClass)
       /\ (ceLast'.thrown = NoError => ceLast'.retClass = ceLast'.clazz)
       /\ (ceLast'.thrown # NoError => ceLast'.retClass = NoClass)]_vars

C1_Witness ==
  /\ ceLast.op = "legacy"
  /\ ceLast.thrown = NoError
  /\ ceLast.retClass = ceLast.clazz
  /\ registry[ceLast.tag] = ceLast.clazz

\* C2: applying customElement(tagName) to a descriptor (of any kind) makes
\* no define call and leaves the registry alone; running the finisher of a
\* returned descriptor with a class makes exactly one define call, with the
\* tag name of that application and that class.
C2_DeferredDefine ==
  [][/\ CeStep("descriptor") =>
          /\ defineLog' = defineLog /\ registry' = registry
          /\ ceLast'.thrown = NoError
          /\ ceLast'.retDesc["finisher"] = FinisherFn
     /\ CeStep("finisher") =>
          \E p \in cePending \ cePending' :
             defineLog' = Append(defineLog,
                             [tag |-> p.tag, clazz |-> ceLast'.clazz])]_vars

C2_Witness ==
  /\ ceLast.op = "finisher"
  /\ ceLast.thrown = NoError
  /\ Len(defineLog) = 1
  /\ registry[ceLast.tag] = ceLast.clazz

\* C3: a define for a tag name that is already registered, made by a direct
\* application or by a finisher, ends in RegistryConflict reaching the
\* caller (nothing is returned), and the registry keeps the first class.
C3_RegistryConflict ==
  [][(CeStep("legacy") \/ CeStep("finisher")) /\ registry[ceLast'.tag] # NoClass =>
       /\ ceLast'.thrown = "RegistryConflict"
       /\ ceLast'.retClass = NoClass
       /\ registry' = registry]_vars

C3_Witness ==
  /\ ceLast.thrown = "RegistryConflict"
  /\ registry[ceLast.tag] # NoClass
  /\ Len(defineLog) >= 2

\* C10 as stated: the returned descriptor carries every field of the input
\* with the same value, plus the finisher, and the input is not modified.
C10_Original ==
  ceLast.op = "descriptor" =>
     /\ \A f \in DescFields \ {"finisher"} :
           ceLast.input[f] # Absent => ceLast.retDesc[f] = ceLast.input[f]
     /\ ceLast.retDesc["finisher"] = FinisherFn
     /\ ceLast.inputAfter = ceLast.input

\* C10 (amended): the returned descriptor is a new record with exactly the
\* fields kind, elements and finisher; kind and elements have the values
\* read from the input (undefined when the input lacks them), every other
\* field of the input is dropped, and the input is not modified.
C10_KindElementsFinisher ==
  ceLast.op = "descriptor" =>
     /\ ceLast.retDesc["kind"] = GetField(ceLast.input, "kind")
     /\ ceLast.retDesc["elements"] = GetField(ceLast.input, "elements")
     /\ ceLast.retDesc["finisher"] = FinisherFn
     /\ \A f \in DescFields \ {"kind", "elements", "finisher"} :
           ceLast.retDesc[f] = Absent
     /\ ceLast.inputAfter = ceLast.input

C10_Witness ==
  /\ ceLast.op = "descriptor"
  /\ ceLast.input["key"] = "k"
  /\ ceLast.input["placement"] = "own"
  /\ ceLast.retDesc["key"] = Absent
  /\ ceLast.retDesc["kind"] = ceLast.input["kind"]

\* ------------------------------------------------------ property: claims
\* the createProperty calls made on behalf of decoration d
CallsOf(d) == { i \in DOMAIN createLog : createLog[i].by = d.id }

\* C4: a decoration by property(options) results in exactly one
\* createProperty call, with the member's original key and the supplied
\* options: in the direct shape the call is made during the application; in
\* the descriptor shape no call is made by the application and the one call
\* is made by the finisher, on the finished class, with the original field
\* key and not the symbol key of the replacement field.
C4_OneCreateProperty ==
  /\ \A d \in decorations :
        /\ ~d.finished => CallsOf(d) = {}
        /\ d.finished =>
              /\ Cardinality(CallsOf(d)) = 1
              /\ \A i \in CallsOf(d) :
                    /\ createLog[i].key = NamedKey(d.key)
                    /\ createLog[i].options = d.options
  /\ \A i \in DOMAIN createLog : \E d \in decorations : d.id = createLog[i].by
  /\ propLast.op \in {"legacy", "finisher"} =>
        /\ createLog # <<>>
        /\ createLog[Len(createLog)].by = propLast.id
        /\ createLog[Len(createLog)].clazz = propLast.clazz
  /\ propLast.op = "legacy" => propLast.seq = propLast.id

C4_Witness ==
  /\ propLast.op = "finisher"
  /\ \E d \in decorations :
        d.shape = "descriptor" /\ d.finished /\ d.options = "optsA"
  /\ \E d \in decorations : d.shape = "legacy"
  /\ Len(createLog) = 2

\* the step just taken runs the initializer of decoration p
InitializerStep(p) ==
  /\ propLast'.seq # propLast.seq
  /\ propLast'.op = "initializer"
  /\ propLast'.id = p.id

\* C5 as stated: the value of the original initializer is stored under the
\* fresh key of the replacement field and no other key is written.
C5_Original ==
  [][\A p \in decorations :
       InitializerStep(p) /\ IsFunction(p.initializer) =>
          instance' = [instance EXCEPT ![SymKey(p.sym)] =
                          CallInitializer(p.initializer, instance)]]_vars

\* C5 (amended): the value of the original initializer, called with the
\* instance as receiver, is assigned to the instance under the original
\* field key; the fresh key of the replacement field and every other key
\* are not written; an initializer that is not a function writes nothing.
C5_StoresUnderFieldKey ==
  [][\A p \in decorations :
       InitializerStep(p) =>
          /\ IsFunction(p.initializer) =>
                /\ propLast'.value = CallInitializer(p.initializer, instance)
                /\ instance'[NamedKey(p.key)] = propLast'.value
                /\ \A k \in InstanceKeys \ {NamedKey(p.key)} :
                      instance'[k] = instance[k]
          /\ ~IsFunction(p.initializer) => instance' = instance]_vars

C5_Witness ==
  /\ propLast.op = "initializer"
  /\ propLast.value = "2"
  /\ instance[NamedKey("foo")] = "2"
  /\ \A n \in 1..MaxSyms : instance[SymKey(n)] = Absent

\* ------------------------------------------------ query / queryAll: claims
\* the step just taken is a read of a decorated member
ReadStep == qLast'.tick # qLast.tick /\ qLast'.op = "read"

\* the first node with the selector's tag in document order, or null
FirstMatch(nodes, selector) ==
  LET M == { i \in DOMAIN nodes : nodes[i].tag = selector } IN
  IF M = {} THEN NullNode ELSE nodes[CHOOSE i \in M : \A j \in M : i <= j]

\* the nodes with the selector's tag, in document order
AllMatches(nodes, selector) ==
  LET M == { i \in DOMAIN nodes : nodes[i].tag = selector } IN
  [k \in 1..Cardinality(M) |->
     nodes[CHOOSE i \in M : Cardinality({ j \in M : j < i }) = k - 1]]

\* a property descriptor with a getter, no setter and no value
GetterOnly(d) == d.get /\ ~d.set /\ ~d.value

\* C6: an accessor produced by query or queryAll has a getter, no setter
\* and no stored value, and every read that returns gives the result of its
\* query on the render root as it is at that read: the first match or null
\* for query, all matches for queryAll, never the result of an earlier read.
C6_FreshQuery ==
  [][/\ \A n \in MemberNames :
          accessors'[n].defined => GetterOnly(accessors'[n])
     /\ \A n \in MemberNames :
          qPending'[n].defined => GetterOnly(qPending'[n])
     /\ ReadStep /\ renderRoot.exists =>
          /\ renderRoot' = renderRoot
          /\ qLast'.acc = accessors[qLast'.name]
          /\ qLast'.out.returned
          /\ qLast'.acc.fn = "querySelector" =>
                qLast'.out.single =
                   FirstMatch(renderRoot.nodes, qLast'.acc.selector)
          /\ qLast'.acc.fn = "querySelectorAll" =>
                qLast'.out.list =
                   AllMatches(renderRoot.nodes, qLast'.acc.selector)]_vars

C6_Witness ==
  /\ qLast.op = "read"
  /\ qLast.changed
  /\ qLast.out.returned
  /\ qLast.acc.fn = "querySelectorAll"
  /\ Len(qLast.out.list) = 2

EvStep(op) == evLast'.seq # evLast.seq /\ evLast'.op = op

\* the method object o after the step is o before it with the options
\* merged in: keys of the options take the options' value, all other keys
\* keep theirs; no other object changes and every method stays where it is
MergedInPlace(o, options) ==
  /\ \A k \in OptKeys :
        /\ options[k] # Absent => objs'[o][k] = options[k]
        /\ options[k] = Absent => objs'[o][k] = objs[o][k]
  /\ \A other \in (1..NumObjs) \ {o} : objs'[other] = objs[other]
  /\ slots' = slots

\* C8: in the legacy shape the options are merged in place onto the object
\* found at the method key on the prototype: keys of the options get the
\* options' value, other keys of the object keep theirs, the object stays
\* the same object, and an overlapping key has the value of the last
\* application.
C8_LegacyMerge ==
  [][\A c \in Classes, n \in MethodKeys :
       /\ EvStep("legacy")
       /\ slots[c][n] # 0
       /\ evLast'.target = slots[c][n]
       => /\ MergedInPlace(slots[c][n], evLast'.options)
          /\ evLast'.thrown = NoError
          /\ \A k \in OptKeys :
                evLast.op = "legacy" /\ evLast.target = evLast'.target
                /\ evLast.options[k] # Absent /\ evLast'.options[k] # Absent
                => objs'[slots[c][n]][k] = evLast'.options[k]]_vars

C8_Witness ==
  /\ evLast.op = "legacy"
  /\ evLast.target = 1
  /\ evLast.options["capture"] = "false"
  /\ objs[1]["capture"] = "false"
  /\ objs[1]["passive"] = "true"
  /\ objs[1]["a"] = "1"
  /\ evLast.seq >= 2

\* C9: in the new shape the application returns the input descriptor's
\* fields with the same values plus a finisher, and changes neither the
\* input nor any method; the options are merged only when the finisher runs
\* with the finished class, onto the method at the descriptor's key on that
\* class's prototype, by the same merge as the legacy shape.
C9_DescriptorShape ==
  [][/\ EvStep("descriptor") =>
          /\ \A f \in DescFields \ {"finisher"} :
                evLast'.retDesc[f] = evLast'.input[f]
          /\ evLast'.retDesc["finisher"] = FinisherFn
          /\ evLast'.inputAfter = evLast'.input
          /\ objs' = objs
          /\ slots' = slots
          /\ \E p \in evPending' \ evPending :
                p.key = evLast'.input["key"] /\ p.options = evLast'.options
     /\ EvStep("finisher") =>
          \E p \in evPending \ evPending', c \in Classes :
             /\ evLast'.options = p.options
             /\ evLast'.target = slots[c][p.key]
             /\ IF slots[c][p.key] = 0
                  THEN objs' = objs /\ slots' = slots
                  ELSE MergedInPlace(slots[c][p.key], p.options)]_vars

C9_Witness ==
  /\ evLast.op = "finisher"
  /\ evLast.target = 1
  /\ evLast.options["capture"] = "true"
  /\ objs[1]["capture"] = "true"
  /\ objs[1]["a"] = "1"
  /\ Cardinality(evPending) = 1

====
